---- MODULE Spec2Model ----
(***************************************************************************)
(* Speech-session state machine of EyeHear.                                *)
(*                                                                         *)
(* Two revisions of the session component live in the repository and both  *)
(* are modelled; a behaviour runs exactly one of them (variable impl):     *)
(*   "EB"  the speechService-based SpeechTranscriber component             *)
(*         (src/components/ErrorBoundary.tsx, lines 116-775) together with *)
(*         the SpeechServiceImpl singleton (services/speech/…);            *)
(*   "ST"  the SpeechTranscriber component that drives the browser         *)
(*         recognizer directly (src/components/SpeechTranscriber.tsx).     *)
(*                                                                         *)
(* Text is a sequence of one-character strings.  An await on a platform    *)
(* call (getUserMedia, the native plugin) is a suspension point: the call  *)
(* is parked in startCalls / stopCalls and resumed by a later action.  An  *)
(* await on a promise that is already resolved resumes in a microtask, so  *)
(* it stays inside the action that reaches it.  A useCallback closure      *)
(* keeps the state values of the render that created it; where the code    *)
(* hands such a closure to a timer, the captured values are stored with    *)
(* the timer.                                                              *)
(***************************************************************************)
EXTENDS Integers, Sequences, FiniteSets, Bags, TLC

\* ---------------------------------------------------------------- bounds
MaxSegments == 2     \* committed segments (and length of finalizedTextRef)
MaxInstances == 2    \* recognizer instances constructed in one behaviour
MaxPending == 2      \* startListening / stopListening calls in flight
MaxTicks == 1        \* clock advances in one behaviour
MaxSaves == 1        \* rows a session behaviour writes to the transcripts table
MaxRows == 2         \* rows of the transcripts table under direct requests
MaxHandles == 3      \* onResult/onError subscriptions made by direct callers

\* ------------------------------------------------------ program constants
MAX_SESSION_DURATION == 30 * 60 * 1000
RESTART_INTERVAL == 55 * 1000
DURATION_TICK == 1000

NoTime == 0 - 1      \* sessionStartTime === null
NoInstance == 1 - 1  \* recognitionRef.current / webRecognition === null

\* ------------------------------------------------------------------ text
WhiteSpace == {" ", "\t", "\n"}

\* String.prototype.trim
RECURSIVE trimStart(_)
trimStart(t) ==
  IF t = <<>> THEN <<>>
  ELSE IF Head(t) \in WhiteSpace THEN trimStart(Tail(t)) ELSE t

RECURSIVE trimEnd(_)
trimEnd(t) ==
  IF t = <<>> THEN <<>>
  ELSE IF t[Len(t)] \in WhiteSpace THEN trimEnd(SubSeq(t, 1, Len(t) - 1)) ELSE t

trim(t) == trimEnd(trimStart(t))

\* number of maximal runs of characters outside seps:
\* the length of split(seps).filter(word => word.length > 0)
RECURSIVE CountRuns(_, _, _)
CountRuns(t, seps, inWord) ==
  IF t = <<>> THEN 0
  ELSE IF Head(t) \in seps THEN CountRuns(Tail(t), seps, FALSE)
  ELSE (IF inWord THEN 0 ELSE 1) + CountRuns(Tail(t), seps, TRUE)

\* text.trim().split(/\s+/).filter(word => word.length > 0).length
WordsByWhitespace(t) == CountRuns(trim(t), WhiteSpace, FALSE)

\* text.split(' ').filter(word => word.length > 0).length
WordsBySpace(t) == CountRuns(t, {" "}, FALSE)

\* text.replace(/[<>]/g, '')
sanitizeText(text) == SelectSeq(text, LAMBDA ch : ch \notin {"<", ">"})

\* segments.map(s => s.text).join(' ')
RECURSIVE JoinTexts(_)
JoinTexts(segs) ==
  IF segs = <<>> THEN <<>>
  ELSE IF Len(segs) = 1 THEN segs[1]
  ELSE segs[1] \o <<" ">> \o JoinTexts(Tail(segs))

\* ------------------------------------------------------- backend inputs
\* a text that is only whitespace, and a text with markup between two words
Blank == <<" ">>
Phrase == <<" ", "a", " ", "<", ">", " ", "b">>

InputTexts == { Blank, Phrase }

Results == [text : InputTexts, isFinal : BOOLEAN]

\* one onresult event: the results from event.resultIndex on
WebEvents ==
  { <<r>> : r \in Results }
  \cup { << [text |-> Phrase, isFinal |-> TRUE],
            [text |-> Phrase, isFinal |-> FALSE] >> }

ErrorKinds == {"not-allowed", "network", "no-speech", "audio-capture", "aborted"}

\* ----------------------------------------------------------------- state
VARIABLES
  impl,              \* which revision of the component runs: "EB" or "ST"
  platform,          \* Capacitor.isNativePlatform(): "native" or "web"
  c,                 \* the component: useState values and useRef cells
  durationInterval,  \* the setInterval of the session-duration effect
  svc,               \* the SpeechServiceImpl singleton
  recog,             \* browser SpeechRecognition instances
  nat,               \* the native speech-recognition plugin
  startCalls,        \* startListening calls suspended at an await
  stopCalls,         \* speechService.stop() calls suspended at an await
  restartTimers,     \* setTimeout(restartRecognition, RESTART_INTERVAL)
  settleTimers,      \* the 100 ms setTimeout inside restartRecognition
  endTimers,         \* setTimeout of SpeechServiceImpl's onend handler
  now,               \* Date.now()
  toast,             \* the notifications raised by the last step
  op,                \* history: the last step and its input
  hist,              \* history: what the session has been given so far
  saved,             \* the list the SavedTranscripts component holds
  store,             \* the rows of public.transcripts, and the next row id
  probe,             \* the trial recognizer of a permission request
  handles            \* the unsubscribe functions onResult/onError returned

vars == << impl, platform, c, durationInterval, svc, recog, nat, startCalls,
           stopCalls, restartTimers, settleTimers, endTimers, now, toast, op,
           hist, saved, store, probe, handles >>

Instances == 1 .. MaxInstances

NoEvent == <<>>

Op(name, ev) == [name |-> name, ev |-> ev]

\* useState / useRef initial values of the component
InitComponent(supported) ==
  [ isSupported |-> supported,
    mounted |-> TRUE,
    isListening |-> FALSE,
    transcript |-> <<>>,
    currentInterim |-> <<>>,
    wordCount |-> 0,
    sessionStartTime |-> NoTime,
    sessionDuration |-> 0,
    showSaveDialog |-> FALSE,
    lastInterimTextRef |-> <<>>,
    finalizedTextRef |-> <<>>,
    recognitionRef |-> NoInstance,
    isRestartingRef |-> FALSE,
    restartTimeoutRef |-> FALSE,
    resultUnsubscribeRef |-> FALSE,
    errorUnsubscribeRef |-> FALSE ]

\* field initialisers of SpeechServiceImpl
InitService ==
  [ isListening |-> FALSE,
    nativeListening |-> FALSE,
    webRecognition |-> NoInstance,
    resultListeners |-> <<>>,
    errorListeners |-> <<>> ]

NoInterval ==
  [ armed |-> FALSE, startTime |-> NoTime, currentInterim |-> <<>>,
    hasTranscript |-> FALSE ]

UnusedInstance ==
  [ status |-> "unused", attached |-> FALSE, endSeesListening |-> FALSE ]

NoTimer == [ pending |-> FALSE, seesListening |-> FALSE ]

\* no permission request is in progress
NoProbe ==
  [ fn |-> "none", pc |-> "idle", timer |-> FALSE, elapsed |-> 0,
    settled |-> "pending", granted |-> FALSE, recognition |-> "unused" ]

\* useAuth().user is null, or the signed-in user
NoUser == "none"
Users == {"u1", "u2"}

\* the user a recording session can be signed in as
SessionUsers == {"u1"}

\* useState<Transcript[]>([]) of SavedTranscripts
InitSaved == <<>>

\* the empty transcripts table, whose ids are never reused, and the profiles
\* table with the row the signup trigger wrote for every user
InitStore ==
  [ rows |-> <<>>, nextId |-> 1, profiles |-> { [user_id |-> u] : u \in Users } ]

NoHandles == <<>>

InitHist ==
  [ sessionFinals |-> <<>>,     \* sanitized final texts of this session, joined
    sessionBegan |-> NoTime,    \* when the session entered listening
    ticks |-> 0 ]

Init ==
  /\ impl \in {"EB", "ST"}
  /\ platform \in {"web", "native"}
  /\ (impl = "ST") => (platform = "web")
  /\ c \in { InitComponent(supported) : supported \in BOOLEAN }
  /\ durationInterval = NoInterval
  /\ svc = InitService
  /\ recog = [i \in Instances |-> UnusedInstance]
  /\ nat = [running |-> FALSE, pluginListeners |-> 0, starts |-> 0]
  /\ startCalls = EmptyBag
  /\ stopCalls = EmptyBag
  /\ restartTimers = [current |-> NoTimer, leaked |-> EmptyBag]
  /\ settleTimers = 0
  /\ endTimers = 0
  /\ now = 0
  /\ toast = {}
  /\ op = Op("init", NoEvent)
  /\ hist = InitHist
  /\ saved = InitSaved
  /\ store = InitStore
  /\ probe = NoProbe
  /\ handles = NoHandles

\* --------------------------------------------------------- React helpers
\* A state setter of an unmounted component does nothing, and the cells of
\* an unmounted component are not read again.
Commit(old, new) == IF old.mounted THEN new ELSE old

\* React discards the state of a component that unmounts
Unmounted(s) == [InitComponent(s.isSupported) EXCEPT !.mounted = FALSE]

\* The effect with dependencies [isListening, sessionStartTime]: it runs
\* again only when one of them changed, and the interval callback then
\* closes over the stopListening of that render.
DurationEffect(old, new, startSet, interval) ==
  IF ~new.mounted THEN NoInterval
  ELSE IF new.isListening = old.isListening
          /\ new.sessionStartTime = old.sessionStartTime /\ ~startSet
       THEN interval
  ELSE IF new.isListening /\ new.sessionStartTime # NoTime
       THEN [ armed |-> TRUE,
              startTime |-> new.sessionStartTime,
              currentInterim |-> new.currentInterim,
              hasTranscript |-> Len(new.transcript) > 0 ]
  ELSE NoInterval

NewInstance == CHOOSE i \in Instances :
                 /\ recog[i].status = "unused"
                 /\ \A j \in Instances : j < i => recog[j].status # "unused"

CanConstruct == \E i \in Instances : recog[i].status = "unused"

PendingStarts == BagCardinality(startCalls) + BagCardinality(stopCalls)
PendingStops == BagCardinality(stopCalls)

\* a suspended startListening call: where it waits, whether a stop was
\* requested while it waited, and the isListening its closures were made with
Call(pc, stale, seesListening) ==
  [pc |-> pc, stale |-> stale, seesListening |-> seesListening]

AddCall(calls, call) == calls (+) SetToBag({call})
DropCall(calls, call) == calls (-) SetToBag({call})

\* every start call suspended now has been overtaken by a stop
MarkStale(calls) ==
  LET marked == { [x EXCEPT !.stale = TRUE] : x \in BagToSet(calls) }
  IN [ y \in marked |->
         CopiesIn([y EXCEPT !.stale = TRUE], calls)
         + CopiesIn([y EXCEPT !.stale = FALSE], calls) ]

\* SpeechRecognition.stop(): a started instance delivers what it has and
\* ends.  With its handlers removed nothing of that is observed, and an
\* instance that was never started has nothing to deliver; every caller
\* drops its reference, so such an instance counts as ended at once.
StopInstance(r, i) ==
  IF i = NoInstance THEN r
  ELSE IF ~r[i].attached \/ r[i].status = "new"
       THEN [r EXCEPT ![i].status = "ended"]
  ELSE IF r[i].status = "running" THEN [r EXCEPT ![i].status = "stopping"]
  ELSE r

\* removeEventListener('result' / 'error' / 'end', ...)
DetachInstance(r, i) ==
  IF i # NoInstance THEN [r EXCEPT ![i].attached = FALSE] ELSE r

\* clearTimeout(restartTimeoutRef.current)
ClearRestartTimer(t) == [t EXCEPT !.current = NoTimer]

\* restartTimeoutRef.current = setTimeout(restartRecognition, RESTART_INTERVAL):
\* a timer that is still pending and no longer referenced keeps running
ArmRestartTimer(t, seesListening) ==
  [ current |-> [pending |-> TRUE, seesListening |-> seesListening],
    leaked |-> IF t.current.pending
               THEN t.leaked (+) SetToBag({t.current.seesListening})
               ELSE t.leaked ]

\* the sanitized, trimmed final texts of an event, joined to what came before
RECURSIVE JoinFinals(_, _)
JoinFinals(joined, ev) ==
  IF ev = <<>> THEN joined
  ELSE LET clean == trim(sanitizeText(Head(ev).text))
           next == IF ~Head(ev).isFinal \/ clean = <<>> THEN joined
                   ELSE IF joined = <<>> THEN clean
                   ELSE joined \o <<" ">> \o clean
       IN JoinFinals(next, Tail(ev))

\* ===================================================== SpeechTranscriber.tsx
\* the loop of handleResult: the final and the interim text of one event
RECURSIVE ST_finalTranscript(_)
ST_finalTranscript(ev) ==
  IF ev = <<>> THEN <<>>
  ELSE (IF Head(ev).isFinal THEN Head(ev).text \o <<" ">> ELSE <<>>)
       \o ST_finalTranscript(Tail(ev))

RECURSIVE ST_interimTranscript(_)
ST_interimTranscript(ev) ==
  IF ev = <<>> THEN <<>>
  ELSE (IF Head(ev).isFinal THEN <<>> ELSE Head(ev).text)
       \o ST_interimTranscript(Tail(ev))

ST_handleResult(s, ev) ==
  LET finalTranscript == ST_finalTranscript(ev)
      interimTranscript == ST_interimTranscript(ev)
      s1 == IF finalTranscript # <<>>
            THEN [s EXCEPT
                    !.transcript = Append(@, trim(finalTranscript)),
                    !.finalizedTextRef = @ \o finalTranscript,
                    !.wordCount = @ + WordsBySpace(finalTranscript),
                    !.currentInterim = <<>>,
                    !.lastInterimTextRef = <<>>]
            ELSE s
      s2 == IF interimTranscript # <<>> /\ finalTranscript = <<>>
            THEN [s1 EXCEPT
                    !.currentInterim = interimTranscript,
                    !.lastInterimTextRef = interimTranscript]
            ELSE s1
  IN IF s.isRestartingRef THEN s ELSE s2

ST_errorToast(kind) ==
  IF kind = "network" THEN {"network-error"}
  ELSE IF kind = "not-allowed" THEN {"microphone-denied"}
  ELSE IF kind = "no-speech" THEN {}
  ELSE {"recognition-error"}

ST_handleError(s, kind) ==
  IF s.isRestartingRef \/ kind = "no-speech" THEN s
  ELSE [s EXCEPT !.isListening = FALSE]

\* the component part of stopListening; transcript and currentInterim are
\* the values its closure was created with
ST_stopListening(s, hasTranscript, closureInterim) ==
  [s EXCEPT
     !.recognitionRef = NoInstance,
     !.restartTimeoutRef = FALSE,
     !.isListening = FALSE,
     !.isRestartingRef = FALSE,
     !.showSaveDialog = IF hasTranscript \/ trim(closureInterim) # <<>>
                        THEN TRUE ELSE @]

\* startListening up to the await of requestMicrophonePermission()
ST_startListening ==
  /\ impl = "ST"
  /\ c.mounted /\ ~c.isListening
  /\ PendingStarts < MaxPending
  /\ IF ~c.isSupported
     THEN /\ toast' = {"unsupported"}
          /\ UNCHANGED startCalls
     ELSE /\ toast' = {}
          /\ startCalls' = AddCall(startCalls, Call("perm", FALSE, c.isListening))
  /\ op' = Op("startListening", NoEvent)
  /\ UNCHANGED << handles, saved, store, probe, impl, platform, c, durationInterval, svc, recog, nat,
                  stopCalls, restartTimers, settleTimers, endTimers, now, hist >>

\* getUserMedia rejected: requestMicrophonePermission returns false
ST_permissionDenied ==
  /\ impl = "ST"
  /\ \E call \in BagToSet(startCalls) :
       /\ call.pc = "perm"
       /\ startCalls' = DropCall(startCalls, call)
  /\ toast' = {"microphone-denied"}
  /\ op' = Op("permissionDenied", NoEvent)
  /\ UNCHANGED << handles, saved, store, probe, impl, platform, c, durationInterval, svc, recog, nat,
                  stopCalls, restartTimers, settleTimers, endTimers, now, hist >>

\* getUserMedia resolved: the rest of startListening
ST_permissionGranted ==
  /\ impl = "ST"
  /\ CanConstruct
  /\ \E call \in BagToSet(startCalls), startThrows \in BOOLEAN :
       LET i == NewInstance
           reset == [c EXCEPT
                       !.transcript = <<>>,
                       !.currentInterim = <<>>,
                       !.wordCount = 0,
                       !.sessionStartTime = now,
                       !.sessionDuration = 0,
                       !.finalizedTextRef = <<>>,
                       !.lastInterimTextRef = <<>>,
                       !.recognitionRef = i]
           started == [reset EXCEPT
                         !.isListening = TRUE,
                         !.restartTimeoutRef = TRUE]
           next == Commit(c, IF startThrows THEN reset ELSE started)
       IN /\ call.pc = "perm"
          /\ startCalls' = DropCall(startCalls, call)
          /\ recog' = [recog EXCEPT ![i] =
                         [ status |-> IF startThrows THEN "new" ELSE "running",
                           attached |-> TRUE,
                           endSeesListening |-> call.seesListening ]]
          /\ c' = next
          /\ restartTimers' =
               IF startThrows THEN restartTimers
               ELSE IF c.mounted
                    THEN ArmRestartTimer(restartTimers, call.seesListening)
                    ELSE [restartTimers EXCEPT
                            !.leaked = @ (+) SetToBag({call.seesListening})]
          /\ durationInterval' = DurationEffect(c, next, TRUE, durationInterval)
          /\ toast' = IF startThrows THEN {"start-failed"} ELSE {"listening"}
          /\ hist' = IF c.mounted
                     THEN [hist EXCEPT
                             !.sessionFinals = <<>>,
                             !.sessionBegan = IF startThrows THEN @ ELSE now]
                     ELSE hist
          /\ op' = Op(IF call.stale THEN "staleStartResumed" ELSE "startResumed",
                      NoEvent)
  /\ UNCHANGED << handles, saved, store, probe, impl, platform, svc, nat, stopCalls, settleTimers,
                  endTimers, now >>

\* a result event of an instance that still has the handlers attached
ST_onresult ==
  /\ impl = "ST"
  /\ c.mounted
  /\ \E i \in Instances :
       recog[i].status \in {"running", "stopping"} /\ recog[i].attached
  /\ \E ev \in WebEvents :
       LET next == Commit(c, ST_handleResult(c, ev))
       IN /\ Len(next.transcript) <= MaxSegments
          /\ c' = next
          /\ hist' = IF c.mounted
                     THEN [hist EXCEPT !.sessionFinals = JoinFinals(@, ev)]
                     ELSE hist
          /\ op' = Op("result", ev)
  /\ toast' = {}
  /\ UNCHANGED << handles, saved, store, probe, impl, platform, durationInterval, svc, recog, nat,
                  startCalls, stopCalls, restartTimers, settleTimers,
                  endTimers, now >>

\* an error event of an instance that still has the handlers attached
ST_onerror ==
  /\ impl = "ST"
  /\ c.mounted
  /\ \E i \in Instances :
       recog[i].status \in {"running", "stopping"} /\ recog[i].attached
  /\ \E kind \in ErrorKinds :
       LET next == Commit(c, ST_handleError(c, kind))
       IN /\ c' = next
          /\ durationInterval' = DurationEffect(c, next, FALSE, durationInterval)
          /\ toast' = IF c.isRestartingRef THEN {} ELSE ST_errorToast(kind)
          /\ op' = Op("error", <<kind>>)
  /\ UNCHANGED << handles, saved, store, probe, impl, platform, svc, recog, nat, startCalls, stopCalls,
                  restartTimers, settleTimers, endTimers, now, hist >>

\* restartRecognition as the closure of a render whose isListening was
\* seesListening: what it does to the component, the instances r and the
\* settle timers
ST_restartRecognition(seesListening, r) ==
  IF ~seesListening \/ c.isRestartingRef
  THEN [c |-> c, recog |-> r, settleTimers |-> settleTimers]
  ELSE [ c |-> Commit(c, [c EXCEPT !.isRestartingRef = TRUE]),
         recog |-> StopInstance(DetachInstance(r, c.recognitionRef),
                                c.recognitionRef),
         settleTimers |-> settleTimers + 1 ]

\* handleEnd, attached as the closure of a render whose isListening was
\* seesListening
ST_handleEnd(seesListening, r) ==
  IF ~c.isRestartingRef /\ seesListening
  THEN ST_restartRecognition(seesListening, r)
  ELSE [c |-> c, recog |-> r, settleTimers |-> settleTimers]

\* the recognizer ended, by itself or after stop()
ST_onend ==
  /\ impl = "ST"
  /\ \E i \in Instances :
       LET ended == [recog EXCEPT ![i].status = "ended"]
           e == IF recog[i].attached
                THEN ST_handleEnd(recog[i].endSeesListening, ended)
                ELSE [c |-> c, recog |-> ended, settleTimers |-> settleTimers]
       IN /\ recog[i].status \in {"running", "stopping"}
          /\ c' = e.c
          /\ recog' = e.recog
          /\ settleTimers' = e.settleTimers
  /\ toast' = {}
  /\ op' = Op("end", NoEvent)
  /\ UNCHANGED << handles, saved, store, probe, impl, platform, durationInterval, svc, nat, startCalls,
                  stopCalls, restartTimers, endTimers, now, hist >>

\* the RESTART_INTERVAL timer fires and runs restartRecognition
ST_restartTimerFires ==
  /\ impl = "ST"
  /\ \E seesListening \in BOOLEAN, leaked \in BOOLEAN :
       LET restart == ST_restartRecognition(seesListening, recog)
       IN /\ IF leaked
             THEN /\ BagIn(seesListening, restartTimers.leaked)
                  /\ restartTimers' =
                       [restartTimers EXCEPT
                          !.leaked = @ (-) SetToBag({seesListening})]
             ELSE /\ restartTimers.current.pending
                  /\ restartTimers.current.seesListening = seesListening
                  /\ restartTimers' =
                       [restartTimers EXCEPT !.current.pending = FALSE]
          /\ c' = restart.c
          /\ recog' = restart.recog
          /\ settleTimers' = restart.settleTimers
  /\ toast' = {}
  /\ op' = Op("restartTimer", NoEvent)
  /\ UNCHANGED << handles, saved, store, probe, impl, platform, durationInterval, svc, nat, startCalls,
                  stopCalls, endTimers, now, hist >>

\* the callback of the 100 ms timer inside restartRecognition.  Every
\* restartRecognition the program hands out was created by a render with
\* isListening false and returns at once, so settleTimers stays 0 and this
\* step is never enabled; it is no disjunct of Next.
ST_restartSettle ==
  /\ impl = "ST"
  /\ settleTimers > 0
  /\ CanConstruct
  /\ \E startThrows \in BOOLEAN :
       LET i == NewInstance
           next == Commit(c, [c EXCEPT
                                !.recognitionRef = i,
                                !.isRestartingRef = FALSE,
                                !.restartTimeoutRef =
                                   IF startThrows THEN @ ELSE TRUE])
       IN /\ c' = next
          /\ recog' = [recog EXCEPT ![i] =
                         [ status |-> IF startThrows THEN "new" ELSE "running",
                           attached |-> TRUE,
                           endSeesListening |-> TRUE ]]
          /\ restartTimers' = IF startThrows THEN restartTimers
                              ELSE ArmRestartTimer(restartTimers, TRUE)
          /\ op' = Op(IF startThrows THEN "restartFailed" ELSE "restartSettle",
                      NoEvent)
  /\ settleTimers' = settleTimers - 1
  /\ toast' = {}
  /\ UNCHANGED << handles, saved, store, probe, impl, platform, durationInterval, svc, nat, startCalls,
                  stopCalls, endTimers, now, hist >>

\* everything stopListening does, for a closure created with the given
\* transcript and currentInterim
ST_stopEffect(hasTranscript, closureInterim) ==
  [ c |-> ST_stopListening(c, hasTranscript, closureInterim),
    recog |-> StopInstance(DetachInstance(recog, c.recognitionRef),
                           c.recognitionRef),
    restartTimers |-> IF c.restartTimeoutRef
                      THEN ClearRestartTimer(restartTimers)
                      ELSE restartTimers ]

\* stopListening called with the closure of the current render.  The
\* function does not look at isListening: it is modelled as callable in
\* every mounted state, as a handler of a render that React has not
\* replaced yet is.
ST_stopListeningCall ==
  /\ impl = "ST"
  /\ c.mounted
  /\ LET e == ST_stopEffect(Len(c.transcript) > 0, c.currentInterim)
     IN /\ c' = e.c
        /\ recog' = e.recog
        /\ restartTimers' = e.restartTimers
        /\ durationInterval' = DurationEffect(c, e.c, FALSE, durationInterval)
  /\ startCalls' = MarkStale(startCalls)
  /\ toast' = {"stopped"}
  /\ op' = Op("stopListening", NoEvent)
  /\ UNCHANGED << handles, saved, store, probe, impl, platform, svc, nat, stopCalls, settleTimers,
                  endTimers, now, hist >>

ST_discardTranscript(s) ==
  [s EXCEPT
     !.showSaveDialog = FALSE,
     !.transcript = <<>>,
     !.currentInterim = <<>>,
     !.wordCount = 0,
     !.sessionDuration = 0,
     !.finalizedTextRef = <<>>,
     !.lastInterimTextRef = <<>>]

\* the cleanup of the unmount effect
ST_unmount ==
  /\ impl = "ST"
  /\ c.mounted
  /\ c' = Unmounted(c)
  /\ hist' = InitHist
  /\ recog' = StopInstance(recog, c.recognitionRef)
  /\ restartTimers' = IF c.restartTimeoutRef
                      THEN ClearRestartTimer(restartTimers)
                      ELSE restartTimers
  /\ durationInterval' = NoInterval
  /\ startCalls' = MarkStale(startCalls)
  /\ toast' = {}
  /\ op' = Op("unmount", NoEvent)
  /\ UNCHANGED << handles, saved, store, probe, impl, platform, svc, nat, stopCalls, settleTimers,
                  endTimers, now >>

\* ================================================= services/speech/SpeechService.ts
\* onResult / onError: push the listener
Subscribe(listeners, listener) == Append(listeners, listener)

\* the function returned by onResult / onError: splice the first entry that
\* is the listener
RECURSIVE Unsubscribe(_, _)
Unsubscribe(listeners, listener) ==
  IF listeners = <<>> THEN <<>>
  ELSE IF Head(listeners) = listener THEN Tail(listeners)
  ELSE <<Head(listeners)>> \o Unsubscribe(Tail(listeners), listener)

\* stop() on the web platform (and on the native platform while
\* nativeListening is false)
Svc_stop(sv, r) ==
  [ svc |-> [sv EXCEPT !.isListening = FALSE, !.webRecognition = NoInstance],
    recog |-> StopInstance(r, sv.webRecognition) ]

\* start() without its "if (this.isListening) await this.stop()"
Svc_startWebNoStop(sv, r, startThrows) ==
  LET i == NewInstance
  IN [ svc |-> [sv EXCEPT
                  !.webRecognition = i,
                  !.isListening = IF startThrows THEN @ ELSE TRUE],
       recog |-> [r EXCEPT ![i] =
                    [ status |-> IF startThrows THEN "new" ELSE "running",
                      attached |-> TRUE,
                      endSeesListening |-> FALSE ]] ]

\* start() on the web platform: stop() when already listening, then startWeb
Svc_startWeb(sv, r, startThrows) ==
  LET stopped == IF sv.isListening THEN Svc_stop(sv, r)
                 ELSE [svc |-> sv, recog |-> r]
      i == NewInstance
  IN [ svc |-> [stopped.svc EXCEPT
                  !.webRecognition = i,
                  !.isListening = IF startThrows THEN @ ELSE TRUE],
       recog |-> [stopped.recog EXCEPT ![i] =
                    [ status |-> IF startThrows THEN "new" ELSE "running",
                      attached |-> TRUE,
                      endSeesListening |-> FALSE ]] ]

\* =========================== components/ErrorBoundary.tsx (SpeechTranscriber)
\* handleResult without its isFinal test: every result is committed
EB_handleResultAllFinal(s, result) ==
  LET cleanText == trim(sanitizeText(result.text))
      finalized == s.finalizedTextRef \o <<" ">> \o cleanText
  IN IF cleanText = <<>> THEN s
     ELSE [s EXCEPT
             !.transcript = Append(@, cleanText),
             !.currentInterim = <<>>,
             !.lastInterimTextRef = <<>>,
             !.finalizedTextRef = finalized,
             !.wordCount = WordsByWhitespace(finalized)]

EB_handleResult(s, result) ==
  LET cleanText == trim(sanitizeText(result.text))
      finalized == s.finalizedTextRef \o <<" ">> \o cleanText
  IN IF cleanText = <<>> THEN s
     ELSE IF result.isFinal
     THEN [s EXCEPT
             !.transcript = Append(@, cleanText),
             !.currentInterim = <<>>,
             !.lastInterimTextRef = <<>>,
             !.finalizedTextRef = finalized,
             !.wordCount = WordsByWhitespace(finalized)]
     ELSE IF cleanText # s.lastInterimTextRef
     THEN [s EXCEPT
             !.currentInterim = cleanText,
             !.lastInterimTextRef = cleanText]
     ELSE s

\* notifyResult: every subscribed listener gets the result
RECURSIVE notifyResult(_, _, _)
notifyResult(s, listeners, result) ==
  IF listeners = <<>> THEN s
  ELSE notifyResult(EB_handleResult(s, result), Tail(listeners), result)

\* webRecognition.onresult: one notifyResult for each result of the event
RECURSIVE Svc_onresult(_, _, _)
Svc_onresult(s, listeners, ev) ==
  IF ev = <<>> THEN s
  ELSE Svc_onresult(notifyResult(s, listeners, Head(ev)), listeners, Tail(ev))

\* handleError only raises a toast; its text depends on the error
EB_errorToast(error) ==
  IF error = "not-allowed" THEN {"speech-error:permission"}
  ELSE IF error = "network" THEN {"speech-error:network"}
  ELSE IF error = "no-speech" THEN {"speech-error:no-speech"}
  ELSE IF error = "audio-capture" THEN {"speech-error:audio-capture"}
  ELSE {"speech-error:unknown"}

\* stopListening after its await: the listeners, the state and the
\* promotion of the interim text its closure was created with
EB_stopListening(s, closureInterim, hasTranscript) ==
  LET promoted == IF trim(closureInterim) # <<>>
                  THEN [s EXCEPT
                          !.transcript = Append(@, trim(closureInterim)),
                          !.currentInterim = <<>>]
                  ELSE s
  IN [promoted EXCEPT
        !.resultUnsubscribeRef = FALSE,
        !.errorUnsubscribeRef = FALSE,
        !.isListening = FALSE,
        !.showSaveDialog = IF hasTranscript \/ trim(closureInterim) # <<>>
                           THEN TRUE ELSE @]

EB_unsubscribe(sv, s) ==
  [sv EXCEPT
     !.resultListeners = IF s.resultUnsubscribeRef
                         THEN Unsubscribe(@, "handleResult") ELSE @,
     !.errorListeners = IF s.errorUnsubscribeRef
                        THEN Unsubscribe(@, "handleError") ELSE @]

StopCall(cont, stale, closureInterim, hasTranscript) ==
  [ cont |-> cont, stale |-> stale, currentInterim |-> closureInterim,
    hasTranscript |-> hasTranscript ]

\* everything a stopListening call does before it is suspended or returns,
\* for a closure created with the given currentInterim and transcript
EB_stopEffect(closureInterim, hasTranscript) ==
  IF platform = "native" /\ svc.nativeListening
  THEN [ c |-> c,
         svc |-> [svc EXCEPT !.isListening = FALSE],
         recog |-> recog,
         stopCalls |-> AddCall(stopCalls,
                         StopCall("stopListening", FALSE, closureInterim,
                                  hasTranscript)) ]
  ELSE LET stopped == Svc_stop(svc, recog)
       IN [ c |-> Commit(c, EB_stopListening(c, closureInterim, hasTranscript)),
            svc |-> IF c.mounted THEN EB_unsubscribe(stopped.svc, c)
                    ELSE stopped.svc,
            recog |-> stopped.recog,
            stopCalls |-> stopCalls ]

\* startListening up to the await of speechService.requestPermission()
EB_startListening ==
  /\ impl = "EB"
  /\ c.mounted /\ c.isSupported /\ ~c.isListening
  /\ PendingStarts < MaxPending
  /\ startCalls' = AddCall(startCalls, Call("perm", FALSE, c.isListening))
  /\ toast' = {}
  /\ op' = Op("startListening", NoEvent)
  /\ UNCHANGED << handles, saved, store, probe, impl, platform, c, durationInterval, svc, recog, nat,
                  stopCalls, restartTimers, settleTimers, endTimers, now, hist >>

\* resultUnsubscribeRef.current = speechService.onResult(handleResult), and
\* the same for the error listener
EB_subscribe(sv) ==
  [sv EXCEPT
     !.resultListeners = Subscribe(@, "handleResult"),
     !.errorListeners = Subscribe(@, "handleError")]

EB_refsSet(s) ==
  [s EXCEPT !.resultUnsubscribeRef = TRUE, !.errorUnsubscribeRef = TRUE]

\* startListening without its "if (!permission.granted) return": the call
\* goes on to subscribe its listeners
EB_permissionDeniedProceeds ==
  /\ impl = "EB"
  /\ \E call \in BagToSet(startCalls) :
       /\ call.pc = "perm"
       /\ startCalls' = DropCall(startCalls, call)
  /\ svc' = EB_subscribe(svc)
  /\ c' = Commit(c, EB_refsSet(c))
  /\ toast' = {"permission-required"}
  /\ op' = Op("permissionDenied", NoEvent)
  /\ UNCHANGED << handles, saved, store, probe, impl, platform, durationInterval, recog, nat, stopCalls,
                  restartTimers, settleTimers, endTimers, now, hist >>

\* requestPermission resolved with granted: false.  On the web it probes
\* with getUserMedia and with a throw-away recognizer that it stops, or that
\* ends in its error, before the promise resolves.
EB_permissionDenied ==
  /\ impl = "EB"
  /\ \E call \in BagToSet(startCalls) :
       /\ call.pc = "perm"
       /\ startCalls' = DropCall(startCalls, call)
  /\ toast' = {"permission-required"}
  /\ op' = Op("permissionDenied", NoEvent)
  /\ UNCHANGED << handles, saved, store, probe, impl, platform, c, durationInterval, svc, recog, nat,
                  stopCalls, restartTimers, settleTimers, endTimers, now, hist >>

\* startListening after speechService.start() has resolved
EB_started(s) ==
  [s EXCEPT
     !.isListening = TRUE,
     !.sessionStartTime = now,
     !.sessionDuration = 0]

BeginSession(h) ==
  IF c.mounted
  THEN [h EXCEPT !.sessionFinals = <<>>, !.sessionBegan = now]
  ELSE h

\* requestPermission resolved with granted: true, web platform: the rest
\* of startListening runs without another suspension
EB_permissionGrantedWeb ==
  /\ impl = "EB" /\ platform = "web"
  /\ CanConstruct
  /\ \E call \in BagToSet(startCalls), startThrows \in BOOLEAN :
       LET e == Svc_startWeb(EB_subscribe(svc), recog, startThrows)
           next == Commit(c, IF startThrows THEN EB_refsSet(c)
                             ELSE EB_started(EB_refsSet(c)))
       IN /\ call.pc = "perm"
          /\ startCalls' = DropCall(startCalls, call)
          /\ svc' = e.svc
          /\ recog' = e.recog
          /\ c' = next
          /\ durationInterval' =
               DurationEffect(c, next, ~startThrows, durationInterval)
          /\ toast' = IF startThrows THEN {"start-failed"} ELSE {"listening"}
          /\ hist' = IF startThrows THEN hist ELSE BeginSession(hist)
          /\ op' = Op(IF call.stale THEN "staleStartResumed" ELSE "startResumed",
                      NoEvent)
  /\ UNCHANGED << handles, saved, store, probe, impl, platform, nat, stopCalls, restartTimers, settleTimers,
                  endTimers, now >>

\* requestPermission resolved with granted: true, native platform:
\* speechService.start() suspends at the plugin's stop() or start()
EB_permissionGrantedNative ==
  /\ impl = "EB" /\ platform = "native"
  /\ nat.starts < MaxInstances
  /\ nat' = [nat EXCEPT !.starts = @ + 1]
  /\ \E call \in BagToSet(startCalls) :
       LET rest == DropCall(startCalls, call)
           mustStop == svc.isListening /\ svc.nativeListening
       IN /\ call.pc = "perm"
          /\ svc' = [EB_subscribe(svc) EXCEPT !.isListening = FALSE]
          /\ c' = Commit(c, EB_refsSet(c))
          /\ startCalls' =
               IF mustStop THEN rest
               ELSE AddCall(rest, Call("nativeStart", call.stale,
                                       call.seesListening))
          /\ stopCalls' =
               IF mustStop
               THEN AddCall(stopCalls, StopCall("start", call.stale, <<>>, FALSE))
               ELSE stopCalls
  /\ toast' = {}
  /\ op' = Op("permissionGranted", NoEvent)
  /\ UNCHANGED << handles, saved, store, probe, impl, platform, durationInterval, recog, restartTimers,
                  settleTimers, endTimers, now, hist >>

\* the plugin's start() settled: the rest of startNative, start and
\* startListening
EB_nativeStartResolved ==
  /\ impl = "EB" /\ platform = "native"
  /\ \E call \in BagToSet(startCalls), startThrows \in BOOLEAN :
       LET next == Commit(c, IF startThrows THEN c ELSE EB_started(c))
       IN /\ call.pc = "nativeStart"
          /\ startCalls' = DropCall(startCalls, call)
          /\ svc' = IF startThrows
                    THEN [svc EXCEPT !.nativeListening = FALSE]
                    ELSE [svc EXCEPT !.nativeListening = TRUE,
                                     !.isListening = TRUE]
          /\ nat' = IF startThrows THEN nat
                    ELSE [nat EXCEPT !.running = TRUE,
                                     !.pluginListeners = @ + 1]
          /\ c' = next
          /\ durationInterval' =
               DurationEffect(c, next, ~startThrows, durationInterval)
          /\ toast' = IF startThrows THEN {"start-failed"} ELSE {"listening"}
          /\ hist' = IF startThrows THEN hist ELSE BeginSession(hist)
          /\ op' = Op(IF call.stale THEN "staleStartResumed" ELSE "startResumed",
                      NoEvent)
  /\ UNCHANGED << handles, saved, store, probe, impl, platform, recog, stopCalls, restartTimers,
                  settleTimers, endTimers, now >>

MarkStaleStops(calls) ==
  LET marked == { [x EXCEPT !.stale = TRUE] : x \in BagToSet(calls) }
  IN [ y \in marked |->
         CopiesIn([y EXCEPT !.stale = TRUE], calls)
         + CopiesIn([y EXCEPT !.stale = FALSE], calls) ]

\* stopListening called with the closure of the current render
EB_stopListeningCall ==
  /\ impl = "EB"
  /\ c.mounted
  /\ PendingStops < MaxPending
  /\ LET e == EB_stopEffect(c.currentInterim, Len(c.transcript) > 0)
     IN /\ Len(e.c.transcript) <= MaxSegments
        /\ c' = e.c
        /\ svc' = e.svc
        /\ recog' = e.recog
        /\ stopCalls' = MarkStaleStops(e.stopCalls)
        /\ durationInterval' = DurationEffect(c, e.c, FALSE, durationInterval)
        /\ op' = Op(IF e.stopCalls = stopCalls THEN "stopListening"
                    ELSE "stopSuspended", NoEvent)
  /\ startCalls' = MarkStale(startCalls)
  /\ toast' = {}
  /\ UNCHANGED << handles, saved, store, probe, impl, platform, nat, restartTimers, settleTimers,
                  endTimers, now, hist >>

\* the plugin's stop() resolved: the rest of speechService.stop() and of
\* the call that awaited it
EB_nativeStopResolved ==
  /\ impl = "EB" /\ platform = "native"
  /\ \E call \in BagToSet(stopCalls) :
       LET next == IF call.cont = "stopListening"
                   THEN Commit(c, EB_stopListening(c, call.currentInterim,
                                                   call.hasTranscript))
                   ELSE c
       IN /\ Len(next.transcript) <= MaxSegments
          /\ stopCalls' = DropCall(stopCalls, call)
          /\ nat' = [nat EXCEPT !.running = FALSE, !.pluginListeners = 0]
          /\ svc' = [(IF call.cont = "stopListening" /\ c.mounted
                      THEN EB_unsubscribe(svc, c) ELSE svc)
                       EXCEPT !.nativeListening = FALSE]
          /\ c' = next
          /\ durationInterval' = DurationEffect(c, next, FALSE, durationInterval)
          /\ startCalls' =
               IF call.cont = "start"
               THEN AddCall(startCalls, Call("nativeStart", call.stale, FALSE))
               ELSE startCalls
          /\ op' = Op(IF call.cont = "stopListening" THEN "stopResumed"
                      ELSE "nativeStopResolved", NoEvent)
  /\ toast' = {}
  /\ UNCHANGED << handles, saved, store, probe, impl, platform, recog, restartTimers, settleTimers,
                  endTimers, now, hist >>

\* webRecognition.onresult of an instance the service created
EB_onresult ==
  /\ impl = "EB" /\ platform = "web"
  /\ c.mounted
  /\ svc.resultListeners # <<>>
  /\ \E i \in Instances : recog[i].status \in {"running", "stopping"}
  /\ \E ev \in WebEvents :
       LET next == Commit(c, Svc_onresult(c, svc.resultListeners, ev))
       IN /\ Len(next.transcript) <= MaxSegments
          /\ c' = next
          /\ hist' = IF c.mounted
                     THEN [hist EXCEPT !.sessionFinals = JoinFinals(@, ev)]
                     ELSE hist
          /\ op' = Op("result", ev)
  /\ toast' = {}
  /\ UNCHANGED << handles, saved, store, probe, impl, platform, durationInterval, svc, recog, nat,
                  startCalls, stopCalls, restartTimers, settleTimers,
                  endTimers, now >>

\* webRecognition.onerror: notifyError calls every error listener
EB_onerror ==
  /\ impl = "EB" /\ platform = "web"
  /\ c.mounted
  /\ svc.errorListeners # <<>>
  /\ \E i \in Instances : recog[i].status \in {"running", "stopping"}
  /\ \E kind \in ErrorKinds :
       /\ toast' = IF c.mounted THEN EB_errorToast(kind) ELSE {}
       /\ op' = Op("error", <<kind>>)
  /\ UNCHANGED << handles, saved, store, probe, impl, platform, c, durationInterval, svc, recog, nat,
                  startCalls, stopCalls, restartTimers, settleTimers,
                  endTimers, now, hist >>

\* webRecognition.onend: schedule the auto-restart while listening
Svc_onend ==
  /\ impl = "EB" /\ platform = "web"
  /\ endTimers < MaxPending
  /\ \E i \in Instances :
       /\ recog[i].status \in {"running", "stopping"}
       /\ recog' = [recog EXCEPT ![i].status = "ended"]
  /\ endTimers' = IF svc.isListening THEN endTimers + 1 ELSE endTimers
  /\ toast' = {}
  /\ op' = Op("end", NoEvent)
  /\ UNCHANGED << handles, saved, store, probe, impl, platform, c, durationInterval, svc, nat, startCalls,
                  stopCalls, restartTimers, settleTimers, now, hist >>

\* the 100 ms timer of onend: this.webRecognition?.start() while listening.
\* start() on an instance that is started throws, and start() may throw as
\* it may in startListening; the exception leaves the timer callback and
\* changes nothing.
Svc_endTimerFires ==
  /\ impl = "EB" /\ platform = "web"
  /\ endTimers > 0
  /\ endTimers' = endTimers - 1
  /\ \E startThrows \in BOOLEAN :
       LET calls == svc.isListening /\ svc.webRecognition # NoInstance
           starts == /\ calls
                     /\ recog[svc.webRecognition].status \in {"new", "ended"}
                     /\ ~startThrows
       IN /\ recog' = IF starts
                       THEN [recog EXCEPT ![svc.webRecognition].status = "running"]
                       ELSE recog
          /\ op' = Op(IF starts THEN "restart"
                      ELSE IF calls THEN "restartFailed" ELSE "endTimer",
                      NoEvent)
  /\ toast' = {}
  /\ UNCHANGED << handles, saved, store, probe, impl, platform, c, durationInterval, svc, nat, startCalls,
                  stopCalls, restartTimers, settleTimers, now, hist >>

\* the plugin's partialResults listeners: each calls notifyResult with
\* isFinal: false
RECURSIVE Svc_partialResults(_, _, _, _)
Svc_partialResults(s, listeners, text, n) ==
  IF n = 0 THEN s
  ELSE Svc_partialResults(
         notifyResult(s, listeners, [text |-> text, isFinal |-> FALSE]),
         listeners, text, n - 1)

EB_partialResults ==
  /\ impl = "EB" /\ platform = "native"
  /\ c.mounted
  /\ nat.running /\ nat.pluginListeners > 0
  /\ svc.resultListeners # <<>>
  /\ \E text \in InputTexts :
       /\ c' = Commit(c, Svc_partialResults(c, svc.resultListeners, text,
                                            nat.pluginListeners))
       /\ op' = Op("result", << [text |-> text, isFinal |-> FALSE] >>)
  /\ toast' = {}
  /\ UNCHANGED << handles, saved, store, probe, impl, platform, durationInterval, svc, recog, nat,
                  startCalls, stopCalls, restartTimers, settleTimers,
                  endTimers, now, hist >>

EB_discardTranscript(s) ==
  [s EXCEPT
     !.transcript = <<>>,
     !.currentInterim = <<>>,
     !.wordCount = 0,
     !.sessionDuration = 0,
     !.sessionStartTime = NoTime,
     !.showSaveDialog = FALSE,
     !.finalizedTextRef = <<>>,
     !.lastInterimTextRef = <<>>]

\* the cleanup of the unmount effect
EB_unmount ==
  /\ impl = "EB"
  /\ c.mounted
  /\ PendingStops < MaxPending
  /\ c' = Unmounted(c)
  /\ hist' = InitHist
  /\ durationInterval' = NoInterval
  /\ IF platform = "native" /\ svc.nativeListening
     THEN /\ svc' = [EB_unsubscribe(svc, c) EXCEPT !.isListening = FALSE]
          /\ stopCalls' = MarkStaleStops(
                            AddCall(stopCalls,
                                    StopCall("unmount", TRUE, <<>>, FALSE)))
          /\ recog' = recog
     ELSE /\ svc' = Svc_stop(EB_unsubscribe(svc, c), recog).svc
          /\ recog' = Svc_stop(EB_unsubscribe(svc, c), recog).recog
          /\ stopCalls' = MarkStaleStops(stopCalls)
  /\ startCalls' = MarkStale(startCalls)
  /\ toast' = {}
  /\ op' = Op("unmount", NoEvent)
  /\ UNCHANGED << handles, saved, store, probe, impl, platform, nat, restartTimers, settleTimers,
                  endTimers, now >>

\* ======================================================= both components
\* the "Mentés" button above the transcript (ErrorBoundary.tsx only)
OpenSaveDialog ==
  /\ impl = "EB"
  /\ c.mounted /\ ~c.showSaveDialog
  /\ Len(c.transcript) > 0
  /\ c' = [c EXCEPT !.showSaveDialog = TRUE]
  /\ toast' = {}
  /\ op' = Op("openSaveDialog", NoEvent)
  /\ UNCHANGED << handles, saved, store, probe, impl, platform, durationInterval, svc, recog, nat,
                  startCalls, stopCalls, restartTimers, settleTimers,
                  endTimers, now, hist >>

\* <Dialog onOpenChange={setShowSaveDialog}>: the dialog is dismissed
CloseSaveDialog ==
  /\ c.mounted /\ c.showSaveDialog
  /\ c' = [c EXCEPT !.showSaveDialog = FALSE]
  /\ toast' = {}
  /\ op' = Op("closeSaveDialog", NoEvent)
  /\ UNCHANGED << handles, saved, store, probe, impl, platform, durationInterval, svc, recog, nat,
                  startCalls, stopCalls, restartTimers, settleTimers,
                  endTimers, now, hist >>

\* the discard button of the save dialog
DiscardTranscript ==
  /\ c.mounted /\ c.showSaveDialog
  /\ LET next == IF impl = "EB" THEN EB_discardTranscript(c)
                 ELSE ST_discardTranscript(c)
     IN /\ c' = next
        /\ durationInterval' = DurationEffect(c, next, FALSE, durationInterval)
  /\ hist' = [hist EXCEPT !.sessionFinals = <<>>]
  /\ toast' = {}
  /\ op' = Op("discardTranscript", NoEvent)
  /\ UNCHANGED << handles, saved, store, probe, impl, platform, svc, recog, nat, startCalls, stopCalls,
                  restartTimers, settleTimers, endTimers, now >>

\* ============================================== the transcripts table
\* CREATE TABLE public.transcripts, and ADD COLUMN user_id
TableColumns ==
  { "id", "title", "content", "word_count", "duration_seconds", "recorded_at",
    "created_at", "updated_at", "user_id" }

\* the NOT NULL columns that have no default
RequiredColumns == { "content", "user_id" }

\* "Users can create their own transcripts": WITH CHECK (auth.uid() = user_id)
InsertPolicy(uid, row) == uid # NoUser /\ uid = row.user_id

\* what the table does with an insert request of the signed-in user uid:
\* the columns must exist, the required ones must be given, the policy must
\* pass, and the backend may fail
InsertAccepted(uid, row, backendError) ==
  /\ ~backendError
  /\ row.fields \subseteq TableColumns
  /\ RequiredColumns \subseteq row.fields
  /\ InsertPolicy(uid, row)

\* the table keeps the row under a new id; of its columns the model keeps
\* the owner, the content and the word count
InsertRow(st, row) ==
  [st EXCEPT
     !.rows = Append(@, [ id |-> st.nextId, user_id |-> row.user_id,
                          content |-> row.content,
                          word_count |-> row.word_count ]),
     !.nextId = @ + 1]

\* text + (currentInterim ? ' ' + currentInterim : '')
WithInterim(text, interim) ==
  text \o (IF interim # <<>> THEN <<" ">> \o interim ELSE <<>>)

\* the object saveTranscript of SpeechTranscriber.tsx hands to insert()
ST_saveRow(s, user) ==
  [ fields |-> {"title", "content", "word_count", "duration_seconds", "user_id"},
    content |-> trim(WithInterim(s.finalizedTextRef, s.currentInterim)),
    word_count |-> s.wordCount
                   + (IF s.currentInterim # <<>>
                      THEN WordsBySpace(s.currentInterim) ELSE 0),
    duration |-> s.sessionDuration \div 1000,
    user_id |-> user ]

\* the object saveTranscript of ErrorBoundary.tsx hands to insert()
EB_saveRow(s, user) ==
  [ fields |-> {"title", "content", "word_count", "session_duration", "user_id"},
    content |-> sanitizeText(WithInterim(JoinTexts(s.transcript),
                                         s.currentInterim)),
    word_count |-> s.wordCount,
    duration |-> (s.sessionDuration + 500) \div 1000,
    user_id |-> user ]

\* the early returns of saveTranscript: the toast it raises instead of a
\* request, or none
SaveRefused(s, user) ==
  IF impl = "ST" /\ trim(WithInterim(s.finalizedTextRef, s.currentInterim)) = <<>>
  THEN {"no-content"}
  ELSE IF user = NoUser THEN {"login-required"}
  ELSE {}

\* after the insert: the success path closes the dialog, the catch block
\* raises a toast only
SaveAccepted(s) == [s EXCEPT !.showSaveDialog = FALSE]

SaveRejectedDiscards(s) ==
  [s EXCEPT !.transcript = <<>>, !.currentInterim = <<>>, !.wordCount = 0]

SaveRejected(s) == s

\* the save button of the save dialog.  The insert is awaited; what follows
\* it reads no state and writes the dialog flag only, and is taken in the
\* same step.  The step records the request: the caller's id and the row.
SaveTranscript ==
  /\ c.mounted /\ c.showSaveDialog
  /\ \E user \in {NoUser} \cup SessionUsers, backendError \in BOOLEAN :
       LET row == IF impl = "ST" THEN ST_saveRow(c, user) ELSE EB_saveRow(c, user)
           refused == SaveRefused(c, user)
           accepted == refused = {} /\ InsertAccepted(user, row, backendError)
       IN /\ accepted => store.nextId <= MaxSaves
          /\ store' = IF accepted THEN InsertRow(store, row) ELSE store
          /\ c' = IF accepted THEN SaveAccepted(c) ELSE SaveRejected(c)
          /\ toast' = IF refused # {} THEN refused
                      ELSE IF accepted THEN {"saved"} ELSE {"save-failed"}
          /\ op' = Op("saveTranscript",
                      IF refused # {} THEN NoEvent
                      ELSE << [uid |-> user, row |-> row] >>)
  /\ UNCHANGED << handles, saved, probe, impl, platform, durationInterval, svc, recog, nat,
                  startCalls, stopCalls, restartTimers, settleTimers,
                  endTimers, now, hist >>

\* duration >= MAX_SESSION_DURATION in the interval callback
SessionExpired(duration) == duration >= MAX_SESSION_DURATION

\* The clock advances and, when the duration interval is armed, its
\* callback runs with the new time.  The callback calls the stopListening
\* of the render that armed the interval.
Tick ==
  /\ hist.ticks < MaxTicks
  /\ c.isListening \/ durationInterval.armed
  /\ \E d \in {DURATION_TICK, MAX_SESSION_DURATION} :
       LET duration == (now + d) - durationInterval.startTime
           timed == [c EXCEPT !.sessionDuration = duration]
           expired == durationInterval.armed /\ SessionExpired(duration)
           st == ST_stopEffect(durationInterval.hasTranscript,
                               durationInterval.currentInterim)
           eb == EB_stopEffect(durationInterval.currentInterim,
                               durationInterval.hasTranscript)
           next == IF ~durationInterval.armed THEN c
                   ELSE IF ~expired THEN timed
                   ELSE IF impl = "ST"
                   THEN [st.c EXCEPT !.sessionDuration = duration]
                   ELSE [eb.c EXCEPT !.sessionDuration = duration]
       IN /\ now' = now + d
          /\ durationInterval.armed
               => (now - durationInterval.startTime < MAX_SESSION_DURATION
                     => duration <= MAX_SESSION_DURATION)
          /\ expired /\ impl = "EB" => PendingStops < MaxPending
          /\ Len(next.transcript) <= MaxSegments
          /\ c' = next
          /\ durationInterval' = DurationEffect(c, next, FALSE, durationInterval)
          /\ recog' = IF ~expired THEN recog
                      ELSE IF impl = "ST" THEN st.recog ELSE eb.recog
          /\ restartTimers' = IF expired /\ impl = "ST" THEN st.restartTimers
                              ELSE restartTimers
          /\ svc' = IF expired /\ impl = "EB" THEN eb.svc ELSE svc
          /\ stopCalls' = IF expired /\ impl = "EB"
                          THEN MarkStaleStops(eb.stopCalls) ELSE stopCalls
          /\ startCalls' = IF expired THEN MarkStale(startCalls) ELSE startCalls
          /\ toast' = IF ~expired THEN {}
                      ELSE IF impl = "ST" THEN {"stopped", "session-timed-out"}
                      ELSE {"session-timed-out"}
          /\ op' = Op(IF expired THEN "sessionTimedOut" ELSE "tick", NoEvent)
  /\ hist' = [hist EXCEPT !.ticks = @ + 1]
  /\ UNCHANGED << handles, saved, store, probe, impl, platform, nat, settleTimers, endTimers >>

Next ==
  \/ ST_startListening
  \/ ST_permissionDenied
  \/ ST_permissionGranted
  \/ ST_onresult
  \/ ST_onerror
  \/ ST_onend
  \/ ST_restartTimerFires
  \/ ST_stopListeningCall
  \/ ST_unmount
  \/ EB_startListening
  \/ EB_permissionDenied
  \/ EB_permissionGrantedWeb
  \/ EB_permissionGrantedNative
  \/ EB_nativeStartResolved
  \/ EB_stopListeningCall
  \/ EB_nativeStopResolved
  \/ EB_onresult
  \/ EB_onerror
  \/ Svc_onend
  \/ Svc_endTimerFires
  \/ EB_partialResults
  \/ EB_unmount
  \/ OpenSaveDialog
  \/ CloseSaveDialog
  \/ DiscardTranscript
  \/ SaveTranscript
  \/ Tick

Spec == Init /\ [][Next]_vars

\* =================================== requests to the transcripts table
\* everything a request to the table leaves alone
session == << impl, platform, c, durationInterval, svc, recog, nat, startCalls,
              stopCalls, restartTimers, settleTimers, endTimers, now, hist,
              probe, handles >>

StoreTexts == { <<"a">>, <<"b">> }

\* "Anyone can view transcripts": USING (true), the policy that was dropped
SelectPolicyAnyone(uid, row) == TRUE

\* "Users can view their own transcripts": TO authenticated
\* USING (auth.uid() = user_id)
SelectPolicy(uid, row) == uid # NoUser /\ uid = row.user_id

\* "Users can update their own transcripts": USING (auth.uid() = user_id);
\* without a WITH CHECK the expression is applied to the new row as well
UpdatePolicy(uid, row) == uid # NoUser /\ uid = row.user_id

\* "Users can delete their own transcripts": USING (auth.uid() = user_id)
DeletePolicy(uid, row) == uid # NoUser /\ uid = row.user_id

\* select('*'): the rows the caller may see
SelectRows(uid, rows) == SelectSeq(rows, LAMBDA r : SelectPolicy(uid, r))

\* order('recorded_at', { ascending: false })
NewestFirst(rows) == [k \in 1..Len(rows) |-> rows[Len(rows) + 1 - k]]

\* delete().eq('id', id): rows the caller may not see or delete are skipped
DeleteRows(uid, rows, id) ==
  SelectSeq(rows, LAMBDA r : ~(/\ r.id = id
                               /\ SelectPolicy(uid, r)
                               /\ DeletePolicy(uid, r)))

\* update({user_id: owner, content: text}).eq('id', id): rows the caller may
\* not see or update are skipped; a new row that fails the policy aborts the
\* statement
UpdateRows(uid, rows, id, owner, text) ==
  LET hit(r) == r.id = id /\ SelectPolicy(uid, r) /\ UpdatePolicy(uid, r)
      new(r) == [r EXCEPT !.user_id = owner, !.content = text]
      error == \E k \in 1..Len(rows) :
                 hit(rows[k]) /\ ~UpdatePolicy(uid, new(rows[k]))
  IN [ error |-> error,
       rows |-> IF error THEN rows
                ELSE [k \in 1..Len(rows) |->
                        IF hit(rows[k]) THEN new(rows[k]) ELSE rows[k]] ]

\* an authenticated user inserts a row that names an owner
Rq_insert ==
  /\ store.nextId <= MaxRows
  /\ \E uid \in Users, owner \in Users, text \in StoreTexts :
       LET row == [ fields |-> {"title", "content", "word_count",
                                "duration_seconds", "user_id"},
                    content |-> text,
                    word_count |-> WordsByWhitespace(text),
                    duration |-> 0,
                    user_id |-> owner ]
           accepted == InsertAccepted(uid, row, FALSE)
       IN /\ store' = IF accepted THEN InsertRow(store, row) ELSE store
          /\ op' = Op("insert", << [uid |-> uid, row |-> row] >>)
  /\ toast' = {}
  /\ UNCHANGED << session, saved >>

\* an authenticated user selects all rows
Rq_select ==
  /\ \E uid \in Users :
       op' = Op("select", << [uid |-> uid, rows |-> SelectRows(uid, store.rows)] >>)
  /\ toast' = {}
  /\ UNCHANGED << session, saved, store >>

\* an authenticated user updates the row with an id
Rq_update ==
  /\ \E uid \in Users, id \in 1..MaxRows, owner \in Users, text \in StoreTexts :
       LET u == UpdateRows(uid, store.rows, id, owner, text)
       IN /\ store' = [store EXCEPT !.rows = u.rows]
          /\ op' = Op("update", << [uid |-> uid, id |-> id, error |-> u.error] >>)
  /\ toast' = {}
  /\ UNCHANGED << session, saved >>

\* an authenticated user deletes the row with an id
Rq_delete ==
  /\ \E uid \in Users, id \in 1..MaxRows :
       /\ store' = [store EXCEPT !.rows = DeleteRows(uid, @, id)]
       /\ op' = Op("delete", << [uid |-> uid, id |-> id] >>)
  /\ toast' = {}
  /\ UNCHANGED << session, saved >>

\* loadTranscripts of SavedTranscripts, for the user useAuth() gives it
LoadTranscripts ==
  /\ \E user \in {NoUser} \cup Users, backendError \in BOOLEAN :
       LET data == NewestFirst(SelectSeq(SelectRows(user, store.rows),
                                         LAMBDA r : r.user_id = user))
           loaded == user # NoUser /\ ~backendError
       IN /\ saved' = IF loaded THEN data ELSE saved
          /\ toast' = IF user = NoUser THEN {"login-required"}
                      ELSE IF backendError THEN {"load-failed"} ELSE {}
          /\ op' = Op("loadTranscripts",
                      << [uid |-> user, rows |-> IF loaded THEN data ELSE <<>>] >>)
  /\ UNCHANGED << session, store >>

\* deleteTranscript of SavedTranscripts for an entry of its list; a delete
\* that removes no row reports no error
DeleteTranscript ==
  /\ \E k \in 1..Len(saved), user \in {NoUser} \cup Users,
        backendError \in BOOLEAN :
       LET transcript == saved[k]
       IN /\ store' = IF backendError THEN store
                      ELSE [store EXCEPT
                              !.rows = DeleteRows(user, @, transcript.id)]
          /\ saved' = IF backendError THEN saved
                      ELSE SelectSeq(saved, LAMBDA t : t.id # transcript.id)
          /\ toast' = IF backendError THEN {"delete-failed"} ELSE {"deleted"}
          /\ op' = Op("deleteTranscript",
                      << [uid |-> user, id |-> transcript.id] >>)
  /\ UNCHANGED session

\* public.profiles has policies for SELECT, INSERT and UPDATE only: with row
\* level security enabled, no row passes for DELETE
ProfileDeletePolicy(uid, row) == FALSE

\* "Users can view their own profile": USING (auth.uid() = user_id)
ProfileSelectPolicy(uid, row) == uid # NoUser /\ uid = row.user_id

\* from('transcripts').delete().eq('user_id', user.id) of deleteAllUserData
DeleteRowsOf(uid, rows, owner) ==
  SelectSeq(rows, LAMBDA r : ~(/\ r.user_id = owner
                               /\ SelectPolicy(uid, r)
                               /\ DeletePolicy(uid, r)))

\* from('profiles').delete().eq('user_id', user.id): rows that pass no
\* policy are skipped without an error
DeleteProfilesOf(uid, profiles, owner) ==
  { r \in profiles : ~(/\ r.user_id = owner
                        /\ ProfileSelectPolicy(uid, r)
                        /\ ProfileDeletePolicy(uid, r)) }

\* deleteAllUserData: what it returns, and the table afterwards
deleteAllUserData(st, user, transcriptsError) ==
  IF user = NoUser \/ transcriptsError
  THEN [ returned |-> FALSE, store |-> st ]
  ELSE [ returned |-> TRUE,
         store |-> [st EXCEPT !.rows = DeleteRowsOf(user, @, user)] ]

\* deleteUserAccount: what it returns, and the tables afterwards
deleteUserAccount(st, user, transcriptsError, profileError) ==
  LET data == deleteAllUserData(st, user, transcriptsError)
  IN IF user = NoUser \/ ~data.returned \/ profileError
     THEN [ returned |-> FALSE, store |-> data.store ]
     ELSE [ returned |-> TRUE,
            store |-> [data.store EXCEPT
                         !.profiles = DeleteProfilesOf(user, @, user)] ]

\* deleteUserAccount called for the user supabase.auth.getUser() gives
DeleteUserAccount ==
  /\ \E user \in {NoUser} \cup Users, transcriptsError \in BOOLEAN,
        profileError \in BOOLEAN :
       LET r == deleteUserAccount(store, user, transcriptsError, profileError)
       IN /\ store' = r.store
          /\ op' = Op("deleteUserAccount",
                      << [uid |-> user, returned |-> r.returned] >>)
  /\ toast' = {}
  /\ UNCHANGED << session, saved >>

NextStore ==
  \/ Rq_insert
  \/ Rq_select
  \/ Rq_update
  \/ Rq_delete
  \/ LoadTranscripts
  \/ DeleteTranscript
  \/ DeleteUserAccount

\* no recording takes part: one component, never started
InitIdle == Init /\ impl = "ST" /\ platform = "web"

\* the table and the list of saved transcripts, apart from any recording
SpecStore == InitIdle /\ [][NextStore]_vars

\* ============================================== the permission probes
\* requestPermission of SpeechService.ts (web) and
\* requestSpeechRecognitionPermission of usePermissions.tsx
ServiceProbeTimeout == 1000
HookProbeTimeout == 5000

ProbeTimeout(fn) == IF fn = "service" THEN ServiceProbeTimeout ELSE HookProbeTimeout

\* the table and the recorder, which a probe leaves alone
probeFrame == << impl, platform, c, durationInterval, svc, recog, nat,
                 startCalls, stopCalls, restartTimers, settleTimers, endTimers,
                 now, hist, saved, store, handles >>

\* resolve(value): settles a pending promise, and is without effect on a
\* settled one
Resolve(p, value) ==
  [p EXCEPT !.settled = IF @ = "pending" THEN "resolved" ELSE @,
            !.granted = IF p.settled = "pending" THEN value ELSE @]

\* a throw inside the executor rejects a pending promise
Reject(p) == [p EXCEPT !.settled = IF @ = "pending" THEN "rejected" ELSE @]

ClearTimeout(p) == [p EXCEPT !.timer = FALSE]

\* recognition.stop() and recognition.abort()
StopTrial(p) ==
  [p EXCEPT !.recognition = IF @ \in {"starting", "running"} THEN "stopping" ELSE @]

\* the executor from "new SpeechRecognition()" on: the timeout is set, the
\* handlers are installed and start() is called
Service_executor(p, startThrows) ==
  LET armed == [p EXCEPT !.timer = TRUE, !.elapsed = 0]
  IN IF startThrows
     THEN [Reject(armed) EXCEPT !.pc = "threw", !.recognition = "new"]
     ELSE [armed EXCEPT !.pc = "started", !.recognition = "starting"]

Hook_executor(p, startThrows) ==
  LET armed == [p EXCEPT !.timer = TRUE, !.elapsed = 0]
  IN IF startThrows
     THEN [Resolve(armed, FALSE) EXCEPT !.pc = "threw", !.recognition = "new"]
     ELSE [armed EXCEPT !.pc = "started", !.recognition = "starting"]

Service_onstart(p) == Resolve(StopTrial(ClearTimeout(p)), TRUE)

Hook_onstart(p) == Resolve(StopTrial(ClearTimeout(p)), TRUE)

Service_onerror(p, kind) == Resolve(ClearTimeout(p), kind # "not-allowed")

\* the onerror handler without its resolve(false)
Hook_onerrorSilent(p, kind) == ClearTimeout(p)

Hook_onerror(p, kind) == Resolve(ClearTimeout(p), FALSE)

Service_timeout(p) == Resolve(StopTrial(ClearTimeout(p)), TRUE)

Hook_timeout(p) == Resolve(StopTrial(ClearTimeout(p)), FALSE)

NewProbe(fn) ==
  [ fn |-> fn, pc |-> "idle", timer |-> FALSE, elapsed |-> 0,
    settled |-> "pending", granted |-> FALSE, recognition |-> "unused" ]

\* a permission request begins, once an earlier one is over.  The hook runs
\* its executor at once; the service first awaits getUserMedia.
ProbeRequest ==
  /\ probe.settled # "pending" \/ probe.pc = "idle"
  /\ ~probe.timer
  /\ \E fn \in {"service", "hook"}, supported \in BOOLEAN, startThrows \in BOOLEAN :
       probe' = IF ~supported
                THEN [Resolve(NewProbe(fn), FALSE) EXCEPT !.pc = "done"]
                ELSE IF fn = "service"
                THEN [NewProbe(fn) EXCEPT !.pc = "mic"]
                ELSE Hook_executor(NewProbe(fn), startThrows)
  /\ toast' = {}
  /\ op' = Op("probeRequest", NoEvent)
  /\ UNCHANGED probeFrame

\* getUserMedia settled: denied, or granted and the trial recognition begins
ProbeMic ==
  /\ probe.pc = "mic"
  /\ \E micGranted \in BOOLEAN, startThrows \in BOOLEAN :
       probe' = IF ~micGranted
                THEN [Resolve(probe, FALSE) EXCEPT !.pc = "done"]
                ELSE Service_executor(probe, startThrows)
  /\ toast' = {}
  /\ op' = Op("probeMic", NoEvent)
  /\ UNCHANGED probeFrame

\* the backend fires onstart
ProbeOnstart ==
  /\ probe.recognition = "starting"
  /\ probe' = IF probe.fn = "service" THEN Service_onstart(probe)
              ELSE Hook_onstart(probe)
  /\ toast' = {}
  /\ op' = Op("probeOnstart", NoEvent)
  /\ UNCHANGED probeFrame

\* the backend fires onerror, and the trial recognition is over
ProbeOnerror ==
  /\ probe.recognition \in {"starting", "running", "stopping"}
  /\ \E kind \in ErrorKinds :
       /\ probe' = [(IF probe.fn = "service" THEN Service_onerror(probe, kind)
                     ELSE Hook_onerror(probe, kind))
                      EXCEPT !.recognition = "ended"]
       /\ op' = Op("probeOnerror", <<kind>>)
  /\ toast' = {}
  /\ UNCHANGED probeFrame

\* the trial recognition ends without a callback the probe listens to
ProbeOnend ==
  /\ probe.recognition \in {"starting", "stopping"}
  /\ probe' = [probe EXCEPT !.recognition = "ended"]
  /\ toast' = {}
  /\ op' = Op("probeOnend", NoEvent)
  /\ UNCHANGED probeFrame

\* the timeout of the probe fires at its time
ProbeTimer ==
  /\ probe.timer
  /\ probe.elapsed = ProbeTimeout(probe.fn)
  /\ probe' = IF probe.fn = "service" THEN Service_timeout(probe)
              ELSE Hook_timeout(probe)
  /\ toast' = {}
  /\ op' = Op("probeTimer", NoEvent)
  /\ UNCHANGED probeFrame

\* time passes, up to the time of the pending timeout
ProbeTick ==
  /\ probe.pc \in {"started", "threw"}
  /\ \E e \in {ProbeTimeout(probe.fn) \div 2, ProbeTimeout(probe.fn)} :
       /\ e > probe.elapsed
       /\ probe' = [probe EXCEPT !.elapsed = e]
  /\ toast' = {}
  /\ op' = Op("probeTick", NoEvent)
  /\ UNCHANGED probeFrame

NextProbe ==
  \/ ProbeRequest
  \/ ProbeMic
  \/ ProbeOnstart
  \/ ProbeOnerror
  \/ ProbeOnend
  \/ ProbeTimer
  \/ ProbeTick

\* the permission probes, apart from any recording
SpecProbe == InitIdle /\ [][NextProbe]_vars

\* ============ services/speech/SpeechService.ts: onResult, onError, notify
\* The listener lists of the singleton under callers that subscribe,
\* keep the functions returned and call them, while events are fanned out.
ListenerFns == {"f", "g"}

listenersFrame == << impl, platform, c, durationInterval, recog, nat,
                     startCalls, stopCalls, restartTimers, settleTimers,
                     endTimers, now, hist, saved, store, probe >>

\* the function onResult/onError returns: a closure over the listener
Handle(kind, listener) ==
  [ kind |-> kind, listener |-> listener, called |-> FALSE ]

\* onResult(listener): push, and return the unsubscribe function
OnResult ==
  /\ Len(handles) < MaxHandles
  /\ \E listener \in ListenerFns :
       /\ svc' = [svc EXCEPT !.resultListeners = Subscribe(@, listener)]
       /\ handles' = Append(handles, Handle("result", listener))
       /\ op' = Op("onResult", << [listener |-> listener] >>)
  /\ toast' = {}
  /\ UNCHANGED listenersFrame

\* onError(listener): push, and return the unsubscribe function
OnError ==
  /\ Len(handles) < MaxHandles
  /\ \E listener \in ListenerFns :
       /\ svc' = [svc EXCEPT !.errorListeners = Subscribe(@, listener)]
       /\ handles' = Append(handles, Handle("error", listener))
       /\ op' = Op("onError", << [listener |-> listener] >>)
  /\ toast' = {}
  /\ UNCHANGED listenersFrame

\* a returned unsubscribe function is called (again or for the first
\* time): indexOf(listener), and splice(index, 1) if index > -1
CallUnsubscribe ==
  /\ \E h \in 1..Len(handles) :
       /\ svc' = IF handles[h].kind = "result"
                 THEN [svc EXCEPT !.resultListeners =
                                    Unsubscribe(@, handles[h].listener)]
                 ELSE [svc EXCEPT !.errorListeners =
                                    Unsubscribe(@, handles[h].listener)]
       /\ handles' = [handles EXCEPT ![h].called = TRUE]
       /\ op' = Op("unsubscribe", << [handle |-> h] >>)
  /\ toast' = {}
  /\ UNCHANGED listenersFrame

\* notifyResult: forEach over resultListeners
NotifyResult ==
  /\ op' = Op("notify", << [kind |-> "result",
                            received |-> svc.resultListeners] >>)
  /\ toast' = {}
  /\ UNCHANGED << listenersFrame, svc, handles >>

\* notifyError: forEach over errorListeners
NotifyError ==
  /\ op' = Op("notify", << [kind |-> "error",
                            received |-> svc.errorListeners] >>)
  /\ toast' = {}
  /\ UNCHANGED << listenersFrame, svc, handles >>

NextListeners ==
  \/ OnResult
  \/ OnError
  \/ CallUnsubscribe
  \/ NotifyResult
  \/ NotifyError

SpecListeners == InitIdle /\ [][NextListeners]_vars

\* ================================================================ claims
NumFinals(ev) == Len(SelectSeq(ev, LAMBDA r : r.isFinal))

Running == { i \in Instances : recog[i].status = "running" }

\* C1: during a session the word count is the number of whitespace-separated
\* tokens of the sanitized final texts the session was given, joined by
\* spaces; an event without a final result leaves it as it is.
C1_WordCountOfFinals ==
  [][ /\ (c'.mounted /\ c'.isListening)
         => c'.wordCount = WordsByWhitespace(hist'.sessionFinals)
      /\ (op'.name = "result" /\ NumFinals(op'.ev) = 0)
         => c'.wordCount = c.wordCount ]_vars

\* C2: in every reachable state the word count is the number of tokens in
\* the committed segments.
C2_WordCountOfSegments ==
  c.mounted => c.wordCount = WordsByWhitespace(JoinTexts(c.transcript))

\* C3: a stopListening call made while the interim text is not empty appends
\* that text as the last segment and leaves the interim text empty.
C3_StopPromotesInterim ==
  [][ (op'.name = "stopListening" /\ trim(c.currentInterim) # <<>>)
      => /\ c'.currentInterim = <<>>
         /\ c'.transcript = Append(c.transcript, trim(c.currentInterim)) ]_vars

\* C4: an interim result followed at once by a final result with the same
\* text adds exactly one segment and leaves the interim text empty.
C4_InterimThenFinalOnce ==
  [][ \A t \in InputTexts :
        ( /\ op = Op("result", << [text |-> t, isFinal |-> FALSE] >>)
          /\ op' = Op("result", << [text |-> t, isFinal |-> TRUE] >>)
          /\ trim(sanitizeText(t)) # <<>> )
        => /\ Len(c'.transcript) = Len(c.transcript) + 1
           /\ c'.currentInterim = <<>> ]_vars

\* C5: a stopListening call that follows a completed stopListening call
\* changes nothing: segments, interim text, word count, listening flag,
\* recognizers and timers stay as the first call left them.
C5_SecondStopChangesNothing ==
  [][ (op.name \in {"stopListening", "stopResumed"} /\ op'.name = "stopListening")
      => /\ c'.transcript = c.transcript
         /\ c'.currentInterim = c.currentInterim
         /\ c'.wordCount = c.wordCount
         /\ ~c'.isListening
         /\ c'.recognitionRef = NoInstance
         /\ svc'.webRecognition = NoInstance
         /\ UNCHANGED << recog, nat, restartTimers, settleTimers, endTimers,
                         durationInterval >> ]_vars

\* C6: the results that arrive after a restart of the recognizer are
\* committed once: the event adds no more segments than it has final results.
C6_FinalCommittedOnce ==
  [][ (op.name = "restart" /\ op'.name = "result")
      => Len(c'.transcript) <= Len(c.transcript) + NumFinals(op'.ev) ]_vars

\* C7: a session never stays listening once the time since it entered
\* listening has reached MAX_SESSION_DURATION, unless the stop the duration
\* check issued is still suspended in the platform.
C7_SessionEndsAtMaximum ==
  ( /\ c.mounted /\ c.isListening
    /\ hist.sessionBegan # NoTime
    /\ now - hist.sessionBegan >= MAX_SESSION_DURATION )
  => stopCalls # EmptyBag

\* C8: no committed segment holds '<' or '>'.
C8_SegmentsSanitized ==
  \A k \in 1 .. Len(c.transcript) :
    \A j \in 1 .. Len(c.transcript[k]) : c.transcript[k][j] \notin {"<", ">"}

\* C9: a startListening call whose permission request is not granted leaves
\* the session as it was: listening flag, transcript, interim text and word
\* count unchanged, no recognizer constructed or started, no listener
\* subscribed, no timer armed.
C9_DenialChangesNothing ==
  [][ op'.name = "permissionDenied"
      => UNCHANGED << c, svc, recog, nat, restartTimers, settleTimers,
                      endTimers, durationInterval >> ]_vars

\* a denied call that found an earlier transcript and an idle session
C9_DeniedWithTranscript ==
  /\ op.name = "permissionDenied"
  /\ Len(c.transcript) > 0
  /\ ~c.isListening /\ Running = {}

\* C10: a startListening call that was overtaken by a stop or an unmount
\* while it awaited the permission does not make the session listening and
\* leaves no recognizer running.
C10_StaleStartAbandoned ==
  [][ op'.name = "staleStartResumed"
      => /\ ~c'.isListening
         /\ \A i \in Instances : recog'[i].status # "running"
         /\ ~nat'.running ]_vars

\* the instances that are started and deliver their events to the session
Started == { i \in Instances : recog[i].status = "running" /\ recog[i].attached }

StopCompleted == {"stopListening", "stopResumed"}

\* C11: in every reachable state at most one recognizer is started with the
\* session's handlers attached.
C11_OneRecognizerStarted == Cardinality(Started) <= 1

\* C12: once a stopListening call has completed, the backend delivers no
\* result and no error event to the session's handlers: the step that
\* follows the completed call is not such a delivery.
C12_NoEventAfterStop ==
  [][ op.name \in StopCompleted => op'.name \notin {"result", "error"} ]_vars

\* C13: when a stopListening call on a listening session returns, no
\* recognizer is running and no restart is pending.
C13_StoppedStaysStopped ==
  [][ (op'.name \in StopCompleted /\ c.isListening)
      => /\ \A i \in Instances : recog'[i].status # "running"
         /\ ~nat'.running
         /\ ~restartTimers'.current.pending
         /\ settleTimers' = 0 ]_vars

\* C14: right after a startListening call that made an idle session
\* listening, the committed transcript is empty, the interim text is empty
\* and the word count is 0.
C14_StartResetsTranscript ==
  [][ ( /\ op'.name = "startResumed"
        /\ ~c.isListening /\ ~c.showSaveDialog /\ c'.isListening )
      => /\ c'.transcript = <<>>
         /\ c'.currentInterim = <<>>
         /\ c'.wordCount = 0 ]_vars

C16_DeadlineRestarts ==
  [][ ( /\ op'.name = "restartTimer"
        /\ restartTimers.current.pending /\ ~restartTimers'.current.pending
        /\ c.mounted /\ c.isListening /\ c.recognitionRef # NoInstance )
      => /\ recog'[c.recognitionRef].status # "running"
         /\ c'.isRestartingRef
         /\ settleTimers' = settleTimers + 1 ]_vars

\* C17: when start() throws during a restart the session leaves the
\* listening state and a restart-failed error is reported.
C17_RestartFailureEndsSession ==
  [][ op'.name = "restartFailed"
      => ~c'.isListening /\ "restart-failed" \in toast' ]_vars

\* C18: a not-allowed error reported while the session is listening makes
\* the session leave the listening state.
C18_NotAllowedEndsSession ==
  [][ (op' = Op("error", <<"not-allowed">>) /\ c.isListening)
      => ~c'.isListening ]_vars

\* C19: a network, audio-capture or unrecognized error reported while the
\* session is listening is shown to the user and leaves the session
\* listening, with its recognizers and timers as they were.
C19_OtherErrorsKeepSession ==
  [][ ( /\ op'.name = "error"
        /\ op'.ev[1] \in {"network", "audio-capture", "aborted"}
        /\ c.isListening )
      => /\ toast' # {}
         /\ c'.isListening
         /\ UNCHANGED << recog, nat, restartTimers, settleTimers, endTimers,
                         durationInterval >> ]_vars

\* C20: a no-speech error raises no notification and changes nothing in the
\* session: listening flag, transcript, interim text, word count, timers.
C20_NoSpeechIsSilent ==
  [][ op' = Op("error", <<"no-speech">>)
      => /\ toast' = {}
         /\ UNCHANGED << c, svc, recog, nat, restartTimers, settleTimers,
                         endTimers, durationInterval >> ]_vars

\* C21: when the duration check stops the session and the stop completes in
\* that step, interim text pending at that moment becomes the last segment
\* and the interim text is emptied, and the save dialog is shown whenever the
\* transcript or the interim text was not empty at that moment.
C21_TimeoutStopFlushes ==
  [][ (op'.name = "sessionTimedOut" /\ ~c'.isListening)
      => /\ trim(c.currentInterim) # <<>>
            => /\ c'.transcript = Append(c.transcript, trim(c.currentInterim))
               /\ c'.currentInterim = <<>>
         /\ (Len(c.transcript) > 0 \/ trim(c.currentInterim) # <<>>)
            => c'.showSaveDialog ]_vars

\* C30: every committed segment has a non-empty text.
C30_SegmentsNonEmpty ==
  c.mounted => \A k \in 1..Len(c.transcript) : c.transcript[k] # <<>>

\* C22: a saveTranscript attempt that persists no row, because nobody is
\* signed in or because the insert reports an error, leaves the table, the
\* committed transcript, the interim text and the word count as they were.
C22_FailedSaveKeepsAll ==
  [][ ( /\ op'.name = "saveTranscript"
        /\ toast' \in {{"login-required"}, {"save-failed"}} )
      => /\ store' = store
         /\ c'.transcript = c.transcript
         /\ c'.currentInterim = c.currentInterim
         /\ c'.wordCount = c.wordCount ]_vars

\* a save was attempted with committed text and the insert failed
C22_FailedSaveWithText ==
  /\ op.name = "saveTranscript"
  /\ toast = {"save-failed"}
  /\ Len(c.transcript) > 0
  /\ c.wordCount > 0

ResetSteps ==
  {"discardTranscript", "startResumed", "staleStartResumed", "permissionGranted"}

C27_SavedRowFields ==
  [][ (op'.name = "saveTranscript" /\ op'.ev # NoEvent)
      => /\ op'.ev[1].row.fields
              = {"title", "content", "word_count", "duration_seconds", "user_id"}
         /\ op'.ev[1].row.user_id = op'.ev[1].uid ]_vars

\* speechService.start() is entered in this step while the service is
\* started: on the web by the resumed startListening, on the native platform
\* by the step that takes the call to the plugin
StartWhileActiveWeb ==
  /\ impl = "EB" /\ platform = "web"
  /\ op'.name \in {"startResumed", "staleStartResumed"}
  /\ svc.isListening /\ svc.webRecognition # NoInstance

StartWhileActiveNative ==
  /\ impl = "EB" /\ platform = "native"
  /\ op'.name = "permissionGranted"
  /\ svc.isListening /\ svc.nativeListening

\* C24 as stated: a start() entered while the service is started fails and
\* leaves the running recognition as it is.
C24_StartWhileActiveFails ==
  [][ /\ StartWhileActiveWeb
         => /\ toast' = {"start-failed"}
            /\ recog' = recog
            /\ svc'.webRecognition = svc.webRecognition
            /\ svc'.isListening
      /\ StartWhileActiveNative
         => /\ toast' = {"start-failed"}
            /\ svc'.isListening
            /\ stopCalls' = stopCalls ]_vars

\* C24, amended: a start() entered while the service is started first stops
\* what is running and then starts anew.  On the web the instance the
\* service held is no longer running and is replaced by a new instance, and
\* the service is listening exactly when that instance's start() succeeded;
\* on the native platform the service clears its listening flag and waits for
\* the plugin's stop() before it starts.
C24_StartWhileActiveRestarts ==
  [][ /\ StartWhileActiveWeb
         => /\ recog'[svc.webRecognition].status # "running"
            /\ svc'.webRecognition \notin {svc.webRecognition, NoInstance}
            /\ svc'.isListening
                 <=> recog'[svc'.webRecognition].status = "running"
            /\ toast' \in {{"listening"}, {"start-failed"}}
            /\ toast' = {"listening"} <=> svc'.isListening
      /\ StartWhileActiveNative
         => /\ ~svc'.isListening
            /\ \E call \in BagToSet(stopCalls') : call.cont = "start"
            /\ nat'.running = nat.running ]_vars

\* the service was started again over a running recognition: the old instance
\* was stopped and the new one runs
C24_RestartedOverRunning ==
  /\ impl = "EB" /\ platform = "web"
  /\ op.name \in {"startResumed", "staleStartResumed"}
  /\ svc.isListening
  /\ \E i \in Instances :
       /\ i # svc.webRecognition
       /\ recog[i].status = "stopping"
       /\ recog[i].attached

StoreRequests ==
  {"insert", "select", "update", "delete", "loadTranscripts", "deleteTranscript"}

\* C25: whatever request a user makes, the rows it returns are the user's
\* own, every row of another owner is in the table afterwards exactly as it
\* was, and every row of another owner in the table afterwards was there
\* before: nothing of another user is read, changed, deleted or inserted.
C25_OwnRowsOnly ==
  [][ op'.name \in StoreRequests
      => LET uid == op'.ev[1].uid
         IN /\ op'.name \in {"select", "loadTranscripts"}
               => \A k \in 1..Len(op'.ev[1].rows) :
                    op'.ev[1].rows[k].user_id = uid
            /\ \A k \in 1..Len(store.rows) :
                 store.rows[k].user_id # uid
                   => \E j \in 1..Len(store'.rows) : store'.rows[j] = store.rows[k]
            /\ \A j \in 1..Len(store'.rows) :
                 store'.rows[j].user_id # uid
                   => \E k \in 1..Len(store.rows) : store.rows[k] = store'.rows[j]
    ]_vars

\* deleteTranscript was called for a row another user owns, and the row is
\* still in the table
C25_ForeignDeleteRefused ==
  /\ op.name = "deleteTranscript"
  /\ toast = {"deleted"}
  /\ \E k \in 1..Len(store.rows) :
       /\ store.rows[k].id = op.ev[1].id
       /\ store.rows[k].user_id # op.ev[1].uid

\* C26: once the trial recognition has been started the promise of the probe
\* is never rejected; it is resolved as soon as the timeout is no longer
\* pending, which is at the latest when the timeout fires at its time; and
\* once resolved it keeps its value whatever the backend fires afterwards.
C26_ProbeResolvesOnce ==
  [][ /\ probe'.pc = "started"
         => /\ probe'.settled # "rejected"
            /\ ~probe'.timer => probe'.settled = "resolved"
            /\ probe'.elapsed <= ProbeTimeout(probe'.fn)
      /\ (probe.pc = "started" /\ probe.settled = "resolved"
            /\ op'.name # "probeRequest")
         => probe'.settled = "resolved" /\ probe'.granted = probe.granted
    ]_vars

\* the backend fired nothing and the timeout settled the promise
C26_SettledByTimeout ==
  /\ op.name = "probeTimer"
  /\ probe.pc = "started"
  /\ probe.recognition = "stopping"
  /\ probe.settled = "resolved"
  /\ probe.elapsed = ProbeTimeout(probe.fn)

\* C31: a result event with one non-final result leaves the committed
\* transcript and the word count as they are, and the interim text is
\* afterwards either what it was or the sanitized, trimmed text of the result.
C31_InterimOnlyReplacesInterim ==
  [][ ( /\ op'.name = "result"
        /\ Len(op'.ev) = 1
        /\ ~op'.ev[1].isFinal )
      => /\ c'.transcript = c.transcript
         /\ c'.wordCount = c.wordCount
         /\ c'.currentInterim
              \in {c.currentInterim, trim(sanitizeText(op'.ev[1].text))} ]_vars

\* C32: at any time at most one result listener and at most one error
\* listener is subscribed to the speech service.
C32_OneListenerEach ==
  Len(svc.resultListeners) <= 1 /\ Len(svc.errorListeners) <= 1

\* C33: when deleteUserAccount returns true, neither a transcript row nor
\* the profile row of the calling user is left in the store.
C33_AccountDeletedWhenTrue ==
  [][ (op'.name = "deleteUserAccount" /\ op'.ev[1].returned)
      => /\ \A k \in 1..Len(store'.rows) :
              store'.rows[k].user_id # op'.ev[1].uid
         /\ \A r \in store'.profiles : r.user_id # op'.ev[1].uid ]_vars

\* C34: whenever the mounted session is not listening, no recognizer is
\* running with handlers attached and no restart timer is pending.
C34_IdleMeansNothingRuns ==
  (c.mounted /\ ~c.isListening)
    => /\ Started = {}
       /\ ~restartTimers.current.pending
       /\ BagToSet(restartTimers.leaked) = {}

\* C35: of two overlapping stopListening calls that complete one after the
\* other, the second appends no segment when the first has left no interim
\* text pending: the interim text is promoted at most once.
C35_PromotedOnce ==
  [][ ( /\ op.name = "stopResumed"
        /\ op'.name = "stopResumed"
        /\ trim(c.currentInterim) = <<>> )
      => c'.transcript = c.transcript ]_vars

\* C36: when the delayed auto-restart of onend calls start(), the instance
\* the service holds is not already started.
C36_RestartNotOnStarted ==
  [][ op'.name \in {"restart", "restartFailed"}
      => recog[svc.webRecognition].status # "running" ]_vars

\* C37: the word_count of every row saveTranscript sends is the number of
\* whitespace-separated tokens of the content of that row.
C37_WordCountOfContent ==
  [][ (op'.name = "saveTranscript" /\ op'.ev # NoEvent)
      => op'.ev[1].row.word_count = WordsByWhitespace(op'.ev[1].row.content) ]_vars

\* C38: on the native backend every delivered result has isFinal = false,
\* no step makes the word count grow, and the committed transcript grows
\* only in a step of stopListening (called by the user or by the session
\* timeout), which ends listening and appends the trimmed interim text its
\* closure holds.
C38_NativeGrowsOnlyAtStop ==
  [][ (impl = "EB" /\ platform = "native")
      => /\ op'.name = "result"
              => \A i \in 1..Len(op'.ev) : ~op'.ev[i].isFinal
         /\ c'.wordCount <= c.wordCount
         /\ Len(c'.transcript) > Len(c.transcript)
              => /\ op'.name \in {"stopListening", "stopResumed",
                                    "sessionTimedOut"}
                 /\ ~c'.isListening
                 /\ Len(c'.transcript) = Len(c.transcript) + 1
                 /\ c'.transcript[Len(c'.transcript)] # <<>> ]_vars

\* a native session took a result and was stopped: the text is committed
\* and the word count is still 0
C38_NativePromotedAtStop ==
  /\ impl = "EB" /\ platform = "native"
  /\ op.name = "stopResumed"
  /\ ~c.isListening
  /\ Len(c.transcript) > 0
  /\ c.wordCount = 0

\* C39: the listeners that receive an event are exactly the subscriptions
\* of that kind whose own unsubscribe function has not been called: each
\* function receives it once for every such subscription of it.
Live(kind, listener) ==
  { h \in 1..Len(handles) : /\ handles[h].kind = kind
                            /\ handles[h].listener = listener
                            /\ ~handles[h].called }

C39_ReceiversAreLiveSubscriptions ==
  [][ op'.name = "notify"
      => \A f \in ListenerFns :
           Len(SelectSeq(op'.ev[1].received, LAMBDA l : l = f))
             = Cardinality(Live(op'.ev[1].kind, f)) ]_vars
====
